---------------------------- MODULE Spec2Model ----------------------------
(***************************************************************************)
(* A model of awsf: the Collector (scripts/populate_resources.py) that     *)
(* enumerates cloud resources into a JSON cache, and the Query Engine      *)
(* (src/awsf.py) that loads the cache, filters it by service and matches   *)
(* it against a search term.                                               *)
(*                                                                         *)
(* Python strings the code inspects (names, service tags, search terms)    *)
(* are sequences of one-character strings, so that lower(), `in` and the   *)
(* similarity ratio are computed, not assumed.                             *)
(***************************************************************************)
EXTENDS Integers, Sequences, FiniteSets, TLC

VARIABLES
    \* ---- files on disk, shared by the invocations
    settings_file,    \* config/settings.json: "missing" or the enabled_services set
    resources_file,   \* data/aws_resources.json: [kind, data]
    \* ---- environment of the query side
    fzf_installed,    \* whether the fzf binary can be spawned
    \* ---- one Query Engine invocation (awsf.py main)
    q_pc,             \* "idle", "fzf" (blocked in communicate()), "done"
    q_args,           \* sys.argv[1:]
    q_service,        \* service_filter after parse_search_query (None = <<>>)
    q_term,           \* the term handed to search_with_query ("" = <<>>)
    q_mode,           \* "none", "substring", "interactive"
    q_resources,      \* search_with_query's / prepare_resource_data's `resources`
    q_matches,        \* search_with_query's `matches`, as names in dict order
    q_suggestions,    \* get_close_matches' result
    q_fzf_calls,      \* one entry per Popen(fzf_cmd): the lines given on stdin
    q_opened,         \* urls given to subprocess.run(['open', url])
    q_outcome,        \* the branch the invocation resolved to
    q_fzf_result,     \* what the matcher process returned
    q_printed,        \* the reports and hints printed about the cache and the mode
    q_phases,         \* the loads and filterings of the cache, in call order
    \* ---- get_environment_indicator applied to a drawn name
    e_name,
    e_tag,
    \* ---- one Collector run (populate_resources.py main)
    c_pc,             \* the step main is about to take: "creds", a service, "save", "done"
    all_resources,    \* main's all_resources mapping
    c_enumerated,     \* the records the fetchers stored, in the order stored
    c_env,            \* the answers of the cloud API so far, one per listing call
    c_exit,           \* the run's return value: "none", "0", "1"
    c_creds,          \* how get_session and get_caller_identity answered
    c_write,          \* how writing the cache file went: "none", "ok", "oserror"
    c_prior,          \* the cache file as the run found it
    c_spent,          \* items listed and calls failed in the earlier runs
    \* ---- one invocation of the settings menu (awsf --settings)
    s_pc,             \* "idle", "settings" (show_settings_menu), "toggle", "done"
    s_settings,       \* show_settings_menu's `settings`: the enabled list it loaded
    s_enabled,        \* the enabled_services set the menus work on
    s_saving,         \* the list Save & back gave to save_settings
    s_before,         \* what a read of the settings gave before Save & back wrote
    s_toggled,        \* the enabled_services set as Save & back found it
    s_write           \* how Save & back's write went: "none", "ok", "oserror"

qvars == <<fzf_installed, q_pc, q_args, q_service, q_term, q_mode, q_resources,
           q_matches, q_suggestions, q_fzf_calls, q_opened, q_outcome,
           q_fzf_result, q_printed, q_phases>>
evars == <<e_name, e_tag>>
cvars == <<c_pc, all_resources, c_enumerated, c_env, c_exit, c_creds, c_write,
           c_prior, c_spent>>
fvars == <<settings_file, resources_file>>
svars == <<s_pc, s_settings, s_enabled, s_saving, s_before, s_toggled, s_write>>
vars == <<fvars, qvars, evars, cvars, svars>>

-----------------------------------------------------------------------------
(* Characters and strings *)

\* The characters the model uses, in code-point order (str comparison).
AsciiOrder ==
    <<" ", "-", "3", "A", "B", "C", "D", "E", "O", "P", "R", "S", "T",
      "a", "b", "c", "d", "e", "g", "i", "k", "l", "m", "n", "o", "p", "q",
      "r", "s", "t", "u", "v", "w", "x", "y", "z">>

Char == {AsciiOrder[i] : i \in 1..Len(AsciiOrder)}

CharCode(c) == CHOOSE i \in 1..Len(AsciiOrder) : AsciiOrder[i] = c

UpperLetters == <<"A", "B", "C", "D", "E", "O", "P", "R", "S", "T">>
LowerLetters == <<"a", "b", "c", "d", "e", "o", "p", "r", "s", "t">>

\* str.lower() on one character
LowerChar(c) ==
    IF \E i \in 1..Len(UpperLetters) : UpperLetters[i] = c
    THEN LowerLetters[CHOOSE i \in 1..Len(UpperLetters) : UpperLetters[i] = c]
    ELSE c

\* str.lower()
Lower(s) == [i \in 1..Len(s) |-> LowerChar(s[i])]

\* Python's `t in s` for strings
Contains(s, t) ==
    \E i \in 0..(Len(s) - Len(t)) : SubSeq(s, i + 1, i + Len(t)) = t

\* Python's str `<`: code-point lexicographic order
StrLess(s, t) ==
    \E k \in 1..(Len(t)) :
        /\ k <= Len(s) + 1
        /\ \A i \in 1..(k - 1) : s[i] = t[i]
        /\ \/ k = Len(s) + 1
           \/ (k <= Len(s) /\ CharCode(s[k]) < CharCode(t[k]))

RECURSIVE Join(_, _)
\* sep.join(parts)
Join(sep, parts) ==
    IF Len(parts) = 0 THEN <<>>
    ELSE IF Len(parts) = 1 THEN parts[1]
    ELSE parts[1] \o sep \o Join(sep, Tail(parts))

\* The elements of a finite set of strings as a sequence in ascending str order.
RECURSIVE SortedSeq(_)
SortedSeq(S) ==
    IF S = {} THEN <<>>
    ELSE LET m == CHOOSE x \in S : \A y \in S \ {x} : StrLess(x, y)
         IN  <<m>> \o SortedSeq(S \ {m})

-----------------------------------------------------------------------------
(* SERVICE_CONFIG and display helpers *)

SvcLambda == <<"l", "a", "m", "b", "d", "a">>
SvcS3 == <<"s", "3">>
SvcSqs == <<"s", "q", "s">>
SvcKinesis == <<"k", "i", "n", "e", "s", "i", "s">>
SvcDynamodb == <<"d", "y", "n", "a", "m", "o", "d", "b">>
SvcRds == <<"r", "d", "s">>
SvcApigateway == <<"a", "p", "i", "g", "a", "t", "e", "w", "a", "y">>

\* list(SERVICE_CONFIG.keys()), in insertion order
SERVICE_CONFIG == <<SvcLambda, SvcS3, SvcSqs, SvcKinesis, SvcDynamodb, SvcRds, SvcApigateway>>

ServiceKeys == {SERVICE_CONFIG[i] : i \in 1..Len(SERVICE_CONFIG)}

\* dict.get(key, default) on a record that may lack the key
Get(resource, key, default) ==
    IF key \in DOMAIN resource THEN resource[key] ELSE default

\* get_service_display: a known service shows its configured name, any other
\* tag its own text; a 'cluster' resource_type adds the Cluster suffix.
get_service_display(service, resource_type) ==
    [known   |-> service \in ServiceKeys,
     name    |-> service,
     cluster |-> resource_type = "cluster"]

\* any(env in name_lower for env in markers)
AnyMarker(name_lower, markers) ==
    \E i \in 1..Len(markers) : Contains(name_lower, markers[i])

ProdMarkers == << <<"p","r","o","d">>, <<"p","r","o","d","u","c","t","i","o","n">> >>
StageMarkers == << <<"s","t","a","g">>, <<"s","t","a","g","i","n","g">>,
                   <<"s","t","a","g","e">> >>
DevMarkers == << <<"d","e","v">>, <<"d","e","v","e","l","o","p","m","e","n","t">> >>
TestMarkers == << <<"t","e","s","t">>, <<"t","e","s","t","i","n","g">> >>

\* Mutant: the TEST markers are looked for first.
get_environment_indicator_testFirst(resource_name) ==
    LET name_lower == Lower(resource_name)
    IN  IF AnyMarker(name_lower, TestMarkers) THEN "TEST"
        ELSE IF AnyMarker(name_lower, ProdMarkers) THEN "PROD"
        ELSE IF AnyMarker(name_lower, StageMarkers) THEN "STAGE"
        ELSE IF AnyMarker(name_lower, DevMarkers) THEN "DEV"
        ELSE "OTHER"

get_environment_indicator(resource_name) ==
    LET name_lower == Lower(resource_name)
    IN  IF AnyMarker(name_lower, ProdMarkers) THEN "PROD"
        ELSE IF AnyMarker(name_lower, StageMarkers) THEN "STAGE"
        ELSE IF AnyMarker(name_lower, DevMarkers) THEN "DEV"
        ELSE IF AnyMarker(name_lower, TestMarkers) THEN "TEST"
        ELSE "OTHER"

-----------------------------------------------------------------------------
(* Files *)

\* json.load of config/settings.json: the file is "missing" or holds the
\* enabled_services list.
load_settings(file) ==
    IF file.kind = "json" THEN file.enabled ELSE ServiceKeys

\* load_settings creates the default settings file when there is none.
settings_after_load(file) ==
    IF file.kind = "json" THEN file ELSE [kind |-> "json", enabled |-> ServiceKeys]

\* How a write with open(file, 'w') and json.dump can go: it completes, it
\* raises before the file is truncated, or it raises after.
WriteOutcomes == {"ok", "unchanged", "truncated"}

\* Mutant: save_settings writes nothing.
save_settings_noWrite(file, enabled, outcome) == file

\* save_settings: the file after the write; OSError is caught and printed.
save_settings(file, enabled, outcome) ==
    IF outcome = "ok" THEN [kind |-> "json", enabled |-> enabled]
    ELSE IF outcome = "unchanged" THEN file
    ELSE [kind |-> "corrupt", enabled |-> {}]

\* The settings file after load_settings, whose except branch saves the
\* default settings when the file is missing or is not valid JSON.
settings_after_read(file, outcome) ==
    IF file.kind = "json" THEN file ELSE save_settings(file, ServiceKeys, outcome)

\* load_aws_resources: the mapping of the cache file, or {} when the file is
\* missing or is not valid JSON.
EmptyDict == [x \in {} |-> <<>>]

load_aws_resources(file) ==
    IF file.kind = "json" THEN file.data ELSE EmptyDict

\* What load_aws_resources prints: a missing file is reported with the hint to
\* run the Collector, a file that is not valid JSON is reported without it.
LoadMessages(file) ==
    IF file.kind = "missing" THEN {"NotFound", "HintPopulate"}
    ELSE IF file.kind = "corrupt" THEN {"NotValidJson"}
    ELSE {}

Restrict(f, S) == [x \in S |-> f[x]]

-----------------------------------------------------------------------------
(* Filtering *)

\* resource.get('service', '').lower()
ServiceOf(resource) == Lower(Get(resource, "service", <<>>))

\* Mutant: the stage that restricts to the service_filter is dropped.
filter_by_service_enabledOnly(resources, service_filter) ==
    Restrict(resources,
             {name \in DOMAIN resources :
                 ServiceOf(resources[name]) \in load_settings(settings_file)})

filter_by_service(resources, service_filter) ==
    LET enabled_services == load_settings(settings_file)
        first == {name \in DOMAIN resources :
                     ServiceOf(resources[name]) \in enabled_services}
        second == IF service_filter # <<>>
                  THEN {name \in first :
                           ServiceOf(resources[name]) = Lower(service_filter)}
                  ELSE first
    IN  Restrict(resources, second)

\* One line of the matcher's input: f"{name} | {service_display} | {env} | {url}",
\* kept as its four fields.
FormatLine(name, resource) ==
    <<name,
      get_service_display(Get(resource, "service", <<"u","n","k","n","o","w","n">>),
                          Get(resource, "type", "unknown")),
      get_environment_indicator(name),
      Get(resource, "url", <<>>)>>

\* selected_line.strip().split(' | '): a line whose url is empty loses its
\* trailing separator to strip() and splits into three parts only.
SplitLine(line) == IF line[4] = <<>> THEN SubSeq(line, 1, 3) ELSE line

prepare_resource_data(resources, service_filter) ==
    IF DOMAIN resources = {} THEN <<>>
    ELSE LET visible == IF service_filter # <<>>
                        THEN filter_by_service(resources, service_filter)
                        ELSE resources
             names == SortedSeq(DOMAIN visible)
         IN  [i \in 1..Len(names) |-> FormatLine(names[i], visible[names[i]])]

\* Mutant: the first argument is compared with the service tags as typed.
parse_search_query_asTyped(args) ==
    IF Len(args) = 0 THEN [service |-> <<>>, search_terms |-> <<>>]
    ELSE IF args[1] \in ServiceKeys
         THEN [service |-> args[1],
               search_terms |-> IF Len(args) > 1
                                THEN Join(<<" ">>, Tail(args)) ELSE <<>>]
         ELSE [service |-> <<>>, search_terms |-> Join(<<" ">>, args)]

parse_search_query(args) ==
    IF Len(args) = 0 THEN [service |-> <<>>, search_terms |-> <<>>]
    ELSE LET first_arg == Lower(args[1])
         IN  IF first_arg \in ServiceKeys
             THEN [service |-> first_arg,
                   search_terms |-> IF Len(args) > 1
                                    THEN Join(<<" ">>, Tail(args)) ELSE <<>>]
             ELSE [service |-> <<>>, search_terms |-> Join(<<" ">>, args)]

-----------------------------------------------------------------------------
(* difflib.get_close_matches, as search_with_query calls it *)

Min(x, y) == IF x < y THEN x ELSE y

\* Length of the longest common run of a[i:] and b[j:] (0-based), within
\* a[:ahi] and b[:bhi].
RunLength(a, b, i, j, ahi, bhi) ==
    LET limit == Min(ahi - i, bhi - j)
    IN  CHOOSE k \in 0..limit :
            /\ \A d \in 0..(k - 1) : a[i + d + 1] = b[j + d + 1]
            /\ (k = limit \/ a[i + k + 1] # b[j + k + 1])

\* SequenceMatcher.find_longest_match without junk: the longest block, the
\* earliest in a among the longest, the earliest in b among those.
find_longest_match(a, b, alo, ahi, blo, bhi) ==
    LET cands == {<<i, j, RunLength(a, b, i, j, ahi, bhi)>> :
                     i \in alo..(ahi - 1), j \in blo..(bhi - 1)}
        found == {c \in cands : c[3] > 0}
    IN  IF found = {} THEN <<alo, blo, 0>>
        ELSE CHOOSE c \in found :
                \A d \in found :
                    \/ c[3] > d[3]
                    \/ (c[3] = d[3] /\ c[1] < d[1])
                    \/ (c[3] = d[3] /\ c[1] = d[1] /\ c[2] <= d[2])

\* Sum of the sizes of SequenceMatcher.get_matching_blocks
RECURSIVE MatchingSize(_, _, _, _, _, _)
MatchingSize(a, b, alo, ahi, blo, bhi) ==
    LET m == find_longest_match(a, b, alo, ahi, blo, bhi)
        i == m[1]
        j == m[2]
        k == m[3]
    IN  IF k = 0 THEN 0
        ELSE k
             + (IF alo < i /\ blo < j
                THEN MatchingSize(a, b, alo, i, blo, j) ELSE 0)
             + (IF i + k < ahi /\ j + k < bhi
                THEN MatchingSize(a, b, i + k, ahi, j + k, bhi) ELSE 0)

\* SequenceMatcher.ratio() = 2.0 * matches / (len(a) + len(b)), as a fraction
ratio(a, b) ==
    IF Len(a) + Len(b) = 0 THEN <<1, 1>>
    ELSE <<2 * MatchingSize(a, b, 0, Len(a), 0, Len(b)), Len(a) + Len(b)>>

\* cutoff=0.3 and n=3 of the call at search_with_query
CutoffNum == 3
CutoffDen == 10
SuggestN == 3

RatioAtLeastCutoff(r) == r[1] * CutoffDen >= CutoffNum * r[2]

\* (score, x) tuple order used by heapq.nlargest; score maps x to its ratio
ScoredLess(x, y, score) ==
    \/ score[x][1] * score[y][2] < score[y][1] * score[x][2]
    \/ (score[x][1] * score[y][2] = score[y][1] * score[x][2] /\ StrLess(x, y))

\* heapq.nlargest(n, [(score, x), ...]) without the scores
RECURSIVE nlargest(_, _, _)
nlargest(n, S, score) ==
    IF n = 0 \/ S = {} THEN <<>>
    ELSE LET best == CHOOSE x \in S : \A y \in S \ {x} : ScoredLess(y, x, score)
         IN  <<best>> \o nlargest(n - 1, S \ {best}, score)

\* The ratio() filter decides: real_quick_ratio() and quick_ratio() are upper
\* bounds of ratio() and only save work.
get_close_matches(word, possibilities) ==
    LET score == [x \in possibilities |-> ratio(x, word)]
    IN  nlargest(SuggestN,
                 {x \in possibilities : RatioAtLeastCutoff(score[x])},
                 score)

-----------------------------------------------------------------------------
(* search_with_query *)

NoResult ==
    [resources |-> EmptyDict, matches |-> <<>>, suggestions |-> <<>>,
     fzf_calls |-> <<>>, opened |-> <<>>, outcome |-> "none", pc |-> "done",
     printed |-> {}, phases |-> <<>>]

\* The zero-match branch: the message, then the suggestions; printing a
\* suggestion reads resource['service'].
SuggestBranch(query, resources) ==
    LET suggestions == get_close_matches(query, DOMAIN resources)
        outcome ==
            IF Len(suggestions) = 0 THEN "NoMatch"
            ELSE IF \E i \in 1..Len(suggestions) :
                        "service" \notin DOMAIN resources[suggestions[i]]
                 THEN "KeyError"
                 ELSE "Suggest"
    IN  [NoResult EXCEPT !.resources = resources,
                         !.suggestions = suggestions,
                         !.outcome = outcome]

\* Mutant: every record of `resources` is given to the matcher.
run_fzf_for_matches_all(matches, resources) ==
    LET names == SortedSeq(DOMAIN resources)
    IN  [NoResult EXCEPT !.resources = resources,
                         !.matches = matches,
                         !.fzf_calls =
                             << [i \in 1..Len(names) |->
                                    FormatLine(names[i], resources[names[i]])] >>,
                         !.outcome = "InteractiveSelect",
                         !.pc = "fzf"]

\* run_fzf_for_matches up to the Popen call: one line per match.
run_fzf_for_matches(matches, resources) ==
    [NoResult EXCEPT !.resources = resources,
                     !.matches = matches,
                     !.fzf_calls =
                         << [i \in 1..Len(matches) |->
                                FormatLine(matches[i], resources[matches[i]])] >>,
                     !.outcome = "InteractiveSelect",
                     !.pc = "fzf"]

\* Mutant: a single match is handed to the matcher like several.
OpenBranch_viaMatcher(name, resources) ==
    run_fzf_for_matches(<<name>>, resources)

\* The single-match branch: open the url when there is one, then print the
\* record, which reads resource['service'].
OpenBranch(name, resources) ==
    LET resource == resources[name]
        url == Get(resource, "url", <<>>)
    IN  IF url # <<>>
        THEN [NoResult EXCEPT !.resources = resources,
                              !.matches = <<name>>,
                              !.opened = <<url>>,
                              !.outcome = IF "service" \in DOMAIN resource
                                          THEN "DirectOpen" ELSE "KeyError"]
        ELSE [NoResult EXCEPT !.resources = resources,
                              !.matches = <<name>>,
                              !.outcome = "NoUrl"]

\* Mutant: the record name is not lower-cased.
IsMatch_caseSensitive(query, name) == Contains(name, Lower(query))

\* query_lower in name.lower()
IsMatch(query, name) == Contains(Lower(name), Lower(query))

search_with_query(query, service_filter) ==
    LET loaded == load_aws_resources(resources_file)
        resources == IF service_filter # <<>>
                     THEN filter_by_service(loaded, service_filter)
                     ELSE loaded
        matches == SelectSeq(SortedSeq(DOMAIN resources),
                             LAMBDA name : IsMatch(query, name))
        branch ==
            IF DOMAIN loaded = {} THEN [NoResult EXCEPT !.outcome = "Empty"]
            ELSE IF Len(matches) = 0 THEN SuggestBranch(query, resources)
            ELSE IF Len(matches) = 1 THEN OpenBranch(matches[1], resources)
            ELSE run_fzf_for_matches(matches, resources)
    IN  [branch EXCEPT
            !.printed = LoadMessages(resources_file),
            !.phases = IF service_filter # <<>> /\ DOMAIN loaded # {}
                       THEN <<"Loaded", "Filtered">> ELSE <<"Loaded">>]

\* run_fzf_search up to the Popen call
run_fzf_search(service_filter) ==
    LET loaded == load_aws_resources(resources_file)
        resource_data == prepare_resource_data(loaded, service_filter)
        shown == IF service_filter # <<>> /\ DOMAIN loaded # {}
                 THEN filter_by_service(loaded, service_filter)
                 ELSE loaded
        phases == IF service_filter # <<>> /\ DOMAIN loaded # {}
                  THEN <<"Loaded", "Filtered">> ELSE <<"Loaded">>
    IN  IF Len(resource_data) = 0
        THEN [NoResult EXCEPT !.resources = shown, !.outcome = "NoResources",
                              !.printed = LoadMessages(resources_file)
                                          \cup {"NoResourcesFound"},
                              !.phases = phases]
        ELSE [NoResult EXCEPT !.resources = shown,
                              !.fzf_calls = <<resource_data>>,
                              !.outcome = "InteractiveSelect",
                              !.pc = "fzf",
                              !.printed = LoadMessages(resources_file),
                              !.phases = phases]

-----------------------------------------------------------------------------
(* Inputs of the Query Engine *)

MaxRecords == 4

NameAb == <<"a", "b">>
NameAbc == <<"A", "b", "c">>
NameAbd == <<"a", "b", "d">>
NameBc == <<"b", "c">>
NamePool == {NameAb, NameAbc, NameAbd, NameBc}

\* The console url the Collector builds from the region, the service's url
\* template and the item's identifier.
ConsoleUrl(service, type, name) == <<"https", service, type, name>>

\* The record a fetcher stores under an item's name
Record(service, type, name) ==
    [service |-> service, type |-> type,
     url |-> ConsoleUrl(service, type, name), region |-> "r"]

\* Record shapes of a cache file: the Collector's lambda and s3 records, a
\* record that lacks the service, type and url keys, and one that lacks the
\* service key only.
ShapePool == {"lambda", "s3", "bare", "nosvc"}

MkRecord(name, shape) ==
    CASE shape = "lambda" -> Record(SvcLambda, "function", name)
      [] shape = "s3" -> Record(SvcS3, "bucket", name)
      [] shape = "nosvc" ->
            [type |-> "function",
             url |-> ConsoleUrl(<<>>, "function", name), region |-> "r"]
      [] OTHER -> [region |-> "r"]

CachePool ==
    UNION {{[name \in S |-> MkRecord(name, shapes[name])] :
               shapes \in [S -> ShapePool]} :
           S \in {T \in SUBSET NamePool : Cardinality(T) <= MaxRecords}}

ResourcesFilePool ==
    {[kind |-> "json", data |-> d] : d \in CachePool}
    \cup {[kind |-> "missing", data |-> EmptyDict],
          [kind |-> "corrupt", data |-> EmptyDict]}

SettingsFilePool ==
    {[kind |-> "missing", enabled |-> {}]}
    \cup {[kind |-> "json", enabled |-> e] :
             e \in {ServiceKeys, {SvcS3}}}

TermAB == <<"A", "B">>
TermBc == <<"B", "c">>
TermAbx == <<"a", "b", "x">>
TermZz == <<"z", "z">>

\* sys.argv[1:]: an optional service token, then the term's tokens
ArgsPool ==
    {f \o t : f \in {<<>>, <<SvcLambda>>, << <<"S", "3">> >>},
              t \in {<<>>, <<TermAB>>, <<TermBc>>, <<TermAbx>>, <<TermZz>>,
                     <<TermAB, TermBc>>}}

\* input("Enter search term: ").strip() of the fallback
ManualPool == {<<>>, TermAB, TermAbx}

-----------------------------------------------------------------------------
(* awsf.py main *)

MainResult(args, manual) ==
    LET parsed == parse_search_query(args)
        service_filter == parsed.service
        search_query == parsed.search_terms
        enabled_services == load_settings(settings_file)
        loaded == load_aws_resources(resources_file)
        \* the fallback's own load_aws_resources, made before search_with_query's
        fallback(res) ==
            [res EXCEPT !.printed = {"FzfNotFound"} \cup LoadMessages(resources_file)
                                    \cup res.printed,
                        !.phases = <<"Loaded">> \o res.phases]
    IN  IF service_filter # <<>> /\ service_filter \notin enabled_services
        THEN [mode |-> "none", term |-> search_query,
              res |-> [NoResult EXCEPT !.outcome = "Disabled",
                                       !.printed = {"ServiceDisabled"}]]
        ELSE IF search_query # <<>>
        THEN [mode |-> "substring", term |-> search_query,
              res |-> search_with_query(search_query, service_filter)]
        ELSE IF fzf_installed
        THEN [mode |-> "interactive", term |-> <<>>,
              res |-> run_fzf_search(service_filter)]
        ELSE IF DOMAIN loaded = {}
        THEN [mode |-> "interactive", term |-> <<>>,
              res |-> fallback([NoResult EXCEPT !.outcome = "Empty",
                                                !.printed = {"HintPopulate"}])]
        ELSE IF manual # <<>>
        THEN [mode |-> "substring", term |-> manual,
              res |-> fallback(search_with_query(manual, service_filter))]
        ELSE [mode |-> "interactive", term |-> <<>>,
              res |-> fallback([NoResult EXCEPT !.outcome = "NoQuery"])]

\* The invocations that reach input(): no term on the command line, no fzf
\* binary, a cache with records.
AsksForTerm(args) ==
    /\ parse_search_query(args).search_terms = <<>>
    /\ ~fzf_installed
    /\ DOMAIN load_aws_resources(resources_file) # {}

QueryIdle ==
    /\ q_pc = "idle"
    /\ q_args = <<>>
    /\ q_service = <<>>
    /\ q_term = <<>>
    /\ q_mode = "none"
    /\ q_resources = EmptyDict
    /\ q_matches = <<>>
    /\ q_suggestions = <<>>
    /\ q_fzf_calls = <<>>
    /\ q_opened = <<>>
    /\ q_outcome = "none"
    /\ q_fzf_result = "none"
    /\ q_printed = {}
    /\ q_phases = <<>>

EnvIdle == e_name = <<>> /\ e_tag = "none"

SettingsIdle ==
    /\ s_pc = "idle"
    /\ s_settings = {}
    /\ s_enabled = {}
    /\ s_saving = {}
    /\ s_before = {}
    /\ s_toggled = {}
    /\ s_write = "none"

CollectorIdle ==
    /\ c_pc = "idle"
    /\ all_resources = EmptyDict
    /\ c_enumerated = <<>>
    /\ c_env = <<>>
    /\ c_exit = "none"
    /\ c_creds = "none"
    /\ c_write = "none"
    /\ c_prior = resources_file
    /\ c_spent = [items |-> 0, failures |-> 0]

\* One invocation of awsf with search arguments, up to its end or to the point
\* where it blocks on the matcher process.
Main ==
    /\ q_pc = "idle"
    /\ \E args \in ArgsPool :
       \E manual \in IF AsksForTerm(args) THEN ManualPool ELSE {<<>>} :
          \E r \in {MainResult(args, manual)} :
              /\ q_args' = args
              /\ q_service' = parse_search_query(args).service
              /\ q_term' = r.term
              /\ q_mode' = r.mode
              /\ q_resources' = r.res.resources
              /\ q_matches' = r.res.matches
              /\ q_suggestions' = r.res.suggestions
              /\ q_fzf_calls' = r.res.fzf_calls
              /\ q_opened' = r.res.opened
              /\ q_outcome' = r.res.outcome
              /\ q_pc' = r.res.pc
              /\ q_printed' = r.res.printed
              /\ q_phases' = r.res.phases
    /\ q_fzf_result' = "none"
    /\ settings_file' = settings_after_load(settings_file)
    /\ UNCHANGED <<resources_file, fzf_installed, evars, svars, cvars>>

\* The matcher process ends: process.communicate() returns (or Popen raised
\* because there is no fzf binary), and a selected line is opened.
FzfReturn ==
    /\ q_pc = "fzf"
    /\ LET lines == q_fzf_calls[Len(q_fzf_calls)]
       IN  IF ~fzf_installed
           THEN /\ q_fzf_result' = "error"
                /\ q_opened' = q_opened
           ELSE \/ \E i \in 1..Len(lines) :
                      LET parts == SplitLine(lines[i])
                      IN  /\ q_fzf_result' = "selected"
                          /\ q_opened' = IF Len(parts) >= 4
                                         THEN Append(q_opened, parts[4])
                                         ELSE q_opened
                \/ /\ q_fzf_result' \in {"copied", "cancelled"}
                   /\ q_opened' = q_opened
    /\ q_pc' = "done"
    /\ UNCHANGED <<fvars, fzf_installed, q_args, q_service, q_term, q_mode,
                   q_resources, q_matches, q_suggestions, q_fzf_calls,
                   q_outcome, q_printed, q_phases, evars, svars, cvars>>

\* The process exits; the next invocation starts from the files on disk.
Exit ==
    /\ q_pc = "done"
    /\ q_pc' = "idle"
    /\ q_args' = <<>>
    /\ q_service' = <<>>
    /\ q_term' = <<>>
    /\ q_mode' = "none"
    /\ q_resources' = EmptyDict
    /\ q_matches' = <<>>
    /\ q_suggestions' = <<>>
    /\ q_fzf_calls' = <<>>
    /\ q_opened' = <<>>
    /\ q_outcome' = "none"
    /\ q_fzf_result' = "none"
    /\ q_printed' = {}
    /\ q_phases' = <<>>
    /\ UNCHANGED <<fvars, fzf_installed, evars, svars, cvars>>

Init ==
    /\ settings_file \in SettingsFilePool
    /\ resources_file \in ResourcesFilePool
    /\ fzf_installed \in BOOLEAN
    /\ QueryIdle
    /\ EnvIdle
    /\ CollectorIdle
    /\ SettingsIdle

Next == Main \/ FzfReturn \/ Exit

Spec == Init /\ [][Next]_vars

-----------------------------------------------------------------------------
(* get_environment_indicator on drawn names *)

MaxTokens == 2

EnvTokens ==
    {<<"p","r","o","d">>, <<"P","R","O","D">>, <<"p","r","o">>,
     <<"S","t","a","g","e">>, <<"d","e","v">>, <<"t","e","s","t">>,
     <<"T","E","S","T">>, <<"x">>, <<"-">>}

\* Names made of up to MaxTokens tokens
EnvNames ==
    {Join(<<>>, ts) :
        ts \in UNION {[1..n -> EnvTokens] : n \in 0..MaxTokens}}

Tag ==
    /\ e_tag = "none"
    /\ e_tag' = get_environment_indicator(e_name)
    /\ UNCHANGED <<e_name, fvars, qvars, cvars, svars>>

EnvInit ==
    /\ e_name \in EnvNames
    /\ e_tag = "none"
    /\ settings_file = [kind |-> "missing", enabled |-> {}]
    /\ resources_file = [kind |-> "missing", data |-> EmptyDict]
    /\ fzf_installed = FALSE
    /\ QueryIdle
    /\ CollectorIdle
    /\ SettingsIdle

EnvNext == Tag

SpecEnv == EnvInit /\ [][EnvNext]_vars

-----------------------------------------------------------------------------
(* The settings menu: show_settings_menu and show_service_toggle_menu *)

\* The settings files an invocation of the menu can find
MenuSettingsPool ==
    {[kind |-> "missing", enabled |-> {}], [kind |-> "corrupt", enabled |-> {}]}
    \cup {[kind |-> "json", enabled |-> e] : e \in {ServiceKeys, {SvcS3}}}

\* The cache file after repopulate_resources ran the Collector in a subprocess
RepopulatePool ==
    {[kind |-> "corrupt", data |-> EmptyDict],
     [kind |-> "json", data |-> EmptyDict],
     [kind |-> "json",
      data |-> [name \in {NameAb} |-> Record(SvcLambda, "function", name)]]}

\* The top of show_settings_menu's loop: settings = load_settings() and
\* enabled_services = set(settings["enabled_services"])
LoadAtMenu(file, outcome) ==
    /\ settings_file' = settings_after_read(file, outcome)
    /\ s_settings' = load_settings(file)
    /\ s_enabled' = load_settings(file)
    /\ s_pc' = "settings"

\* awsf --settings
OpenSettings ==
    /\ s_pc = "idle"
    /\ \E outcome \in WriteOutcomes : LoadAtMenu(settings_file, outcome)
    /\ UNCHANGED <<resources_file, s_saving, s_before, s_toggled, s_write,
                   fzf_installed,
                   qvars, evars, cvars>>

\* Option 1: repopulate_resources, then the loop loads the settings again.
\* (Options 3 and 4 and an invalid option change neither file.)
Repopulate ==
    /\ s_pc = "settings"
    /\ resources_file' \in RepopulatePool \cup {resources_file}
    /\ \E outcome \in WriteOutcomes : LoadAtMenu(settings_file, outcome)
    /\ UNCHANGED <<s_saving, s_before, s_toggled, s_write, qvars, evars, cvars>>

\* Option 2: show_service_toggle_menu(enabled_services)
EnterToggle ==
    /\ s_pc = "settings"
    /\ s_pc' = "toggle"
    /\ s_saving' = {}
    /\ s_before' = {}
    /\ s_toggled' = {}
    /\ s_write' = "none"
    /\ UNCHANGED <<fvars, s_settings, s_enabled, qvars, evars, cvars>>

\* A choice 1..7: the service is removed from the set or added to it.
ToggleOne ==
    /\ s_pc = "toggle"
    /\ \E choice_num \in 1..Len(SERVICE_CONFIG) :
          LET service == SERVICE_CONFIG[choice_num]
          IN  s_enabled' = IF service \in s_enabled
                           THEN s_enabled \ {service}
                           ELSE s_enabled \cup {service}
    /\ UNCHANGED <<fvars, s_pc, s_settings, s_saving, s_before, s_toggled, s_write,
                   qvars, evars, cvars>>

\* Choice 8: clear the set when all are enabled, enable all otherwise.
ToggleAll ==
    /\ s_pc = "toggle"
    /\ s_enabled' = IF Cardinality(s_enabled) = Len(SERVICE_CONFIG)
                     THEN {} ELSE s_enabled \cup ServiceKeys
    /\ UNCHANGED <<fvars, s_pc, s_settings, s_saving, s_before, s_toggled, s_write,
                   qvars, evars, cvars>>

\* Mutant: the set is saved as toggled, empty or not.
SaveAndBack_asToggled ==
    /\ s_pc = "toggle"
    /\ \E o1, o2, o3 \in WriteOutcomes :
          LET toSave == s_enabled
              loaded == settings_after_read(settings_file, o1)
              written == save_settings(loaded, toSave, o2)
          IN  /\ s_saving' = toSave
              /\ s_before' = load_settings(settings_file)
              /\ s_toggled' = s_enabled
              /\ s_write' = IF o2 = "ok" THEN "ok" ELSE "oserror"
              /\ LoadAtMenu(written, o3)
    /\ UNCHANGED <<resources_file, fzf_installed, qvars, evars, cvars>>

\* Choice 9, Save & back: an empty set becomes all services; load_settings,
\* settings["enabled_services"] = list(enabled_services), save_settings; then
\* show_settings_menu's loop loads the settings again.
SaveAndBack ==
    /\ s_pc = "toggle"
    /\ \E o1, o2, o3 \in WriteOutcomes :
          LET toSave == IF s_enabled = {} THEN ServiceKeys ELSE s_enabled
              loaded == settings_after_read(settings_file, o1)
              written == save_settings(loaded, toSave, o2)
          IN  /\ s_saving' = toSave
              /\ s_before' = load_settings(settings_file)
              /\ s_toggled' = s_enabled
              /\ s_write' = IF o2 = "ok" THEN "ok" ELSE "oserror"
              /\ LoadAtMenu(written, o3)
    /\ UNCHANGED <<resources_file, fzf_installed, qvars, evars, cvars>>

\* Option 5, Back to search: show_settings_menu returns and main ends.
Back ==
    /\ s_pc = "settings"
    /\ s_pc' = "done"
    /\ UNCHANGED <<fvars, s_settings, s_enabled, s_saving, s_before, s_toggled,
                   s_write,
                   qvars, evars, cvars>>

\* Ctrl-C or end of input at the toggle menu's prompt: input() raises, nothing
\* catches it, and the process ends with the toggles unsaved.
Interrupt ==
    /\ s_pc = "toggle"
    /\ s_pc' = "done"
    /\ UNCHANGED <<fvars, s_settings, s_enabled, s_saving, s_before, s_toggled,
                   s_write,
                   qvars, evars, cvars>>

\* The process has exited; the next invocation starts from the files on disk.
SettingsExit ==
    /\ s_pc = "done"
    /\ s_pc' = "idle"
    /\ s_settings' = {}
    /\ s_enabled' = {}
    /\ s_saving' = {}
    /\ s_before' = {}
    /\ s_toggled' = {}
    /\ s_write' = "none"
    /\ UNCHANGED <<fvars, qvars, evars, cvars>>

SettingsInit ==
    /\ settings_file \in MenuSettingsPool
    /\ resources_file = [kind |-> "missing", data |-> EmptyDict]
    /\ fzf_installed = FALSE
    /\ QueryIdle
    /\ EnvIdle
    /\ CollectorIdle
    /\ SettingsIdle

SettingsNext ==
    \/ OpenSettings
    \/ Repopulate
    \/ EnterToggle
    \/ ToggleOne
    \/ ToggleAll
    \/ SaveAndBack
    \/ Back
    \/ Interrupt
    \/ SettingsExit

SpecSettings == SettingsInit /\ [][SettingsNext]_vars

-----------------------------------------------------------------------------
(* Properties of the Query Engine *)

Range(seq) == {seq[i] : i \in 1..Len(seq)}

Cache == load_aws_resources(resources_file)

\* A record the settings leave visible: its service tag is enabled.
Visible(name) ==
    /\ name \in DOMAIN Cache
    /\ ServiceOf(Cache[name]) \in load_settings(settings_file)

\* The names on the lines handed to the matcher
LineNames == UNION {{call[i][1] : i \in 1..Len(call)} : call \in Range(q_fzf_calls)}

\* A record of a disabled service: it carries a service tag, and the tag is not
\* in enabled_services.
Disabled(name) ==
    /\ name \in DOMAIN Cache
    /\ "service" \in DOMAIN Cache[name]
    /\ ServiceOf(Cache[name]) \notin load_settings(settings_file)

\* C1: no record whose service tag is not in enabled_services is returned as a
\* match, opened, or passed as a line to the external matcher, in substring or
\* interactive mode, with or without a service filter.
C1_DisabledInvisible ==
    \A name \in DOMAIN Cache :
        Disabled(name) =>
            /\ name \notin Range(q_matches)
            /\ name \notin LineNames
            /\ Get(Cache[name], "url", <<>>) \notin Range(q_opened)

\* C2: when a substring query has zero direct matches, no suggestion is the name
\* of a record whose service is disabled.
C2_NoDisabledSuggestion ==
    (q_mode = "substring" /\ q_matches = <<>>)
        => \A name \in Range(q_suggestions) : ~Disabled(name)

\* C3: suggestions are produced only when there are zero direct matches, at most
\* 3 of them, each a name of the visible set, and then nothing is opened and the
\* matcher is not invoked.
C3_SuggestionFallback ==
    q_suggestions # <<>> =>
        /\ q_mode = "substring"
        /\ q_matches = <<>>
        /\ Len(q_suggestions) <= 3
        /\ \A name \in Range(q_suggestions) :
              /\ name \in DOMAIN Cache
              /\ ~Disabled(name)
              /\ q_service # <<>> => ServiceOf(Cache[name]) = q_service
        /\ q_opened = <<>>
        /\ q_fzf_calls = <<>>

\* The cache filtered by the service tag t alone
FilterByTagAlone(t) ==
    Restrict(Cache, {name \in DOMAIN Cache : ServiceOf(Cache[name]) = t})

\* C4: for a query scoped to service tag t: if t is enabled, the visible set
\* (enabled-services filter, then t) equals the cache filtered by t alone; if t
\* is not enabled, the result is empty whatever the search term.
C4_FilterByTag ==
    (q_pc # "idle" /\ q_service # <<>>) =>
        IF q_service \in load_settings(settings_file)
        THEN q_outcome # "NoQuery" => q_resources = FilterByTagAlone(q_service)
        ELSE /\ q_resources = EmptyDict
             /\ q_matches = <<>>
             /\ q_suggestions = <<>>
             /\ q_fzf_calls = <<>>
             /\ q_opened = <<>>

\* Witness of C4: a query scoped to an enabled tag whose filter kept a record and
\* removed a record of another enabled service.
C4_Witness ==
    /\ q_service = SvcS3
    /\ q_service \in load_settings(settings_file)
    /\ DOMAIN q_resources # {}
    /\ \E name \in DOMAIN Cache \ DOMAIN q_resources : Visible(name)

\* C5: in substring mode a visible record (of the filtered service, when one is
\* given) is a match if and only if the lower-cased term is a substring of its
\* lower-cased name.
C5_SubstringIff ==
    q_mode = "substring" =>
        \A name \in DOMAIN Cache :
            (Visible(name) /\ (q_service # <<>> => ServiceOf(Cache[name]) = q_service))
                => (name \in Range(q_matches)
                        <=> Contains(Lower(name), Lower(q_term)))

\* Witness of C5: an upper-case term matched a name by its lower-case form,
\* and a visible name without the term was left out.
C5_Witness ==
    /\ q_mode = "substring"
    /\ q_term = TermAB
    /\ NameAbc \in Range(q_matches)
    /\ Visible(NameAbc)
    /\ Visible(NameBc)
    /\ NameBc \notin Range(q_matches)

\* C7 as stated: exactly one substring match resolves to opening that record's
\* url, with no matcher and no suggestions.
C7_SingleMatchOpens ==
    (q_mode = "substring" /\ Len(q_matches) = 1) =>
        /\ q_opened = <<Get(Cache[q_matches[1]], "url", <<>>)>>
        /\ q_fzf_calls = <<>>
        /\ q_suggestions = <<>>

\* C7 amended: exactly one substring match ends the invocation at once, opening
\* that record's url when the record has a non-empty url and opening nothing
\* when it has none, with no matcher and no suggestions.
C7_SingleMatchResolves ==
    (q_mode = "substring" /\ Len(q_matches) = 1) =>
        LET url == Get(Cache[q_matches[1]], "url", <<>>)
        IN  /\ q_opened = IF url # <<>> THEN <<url>> ELSE <<>>
            /\ q_fzf_calls = <<>>
            /\ q_suggestions = <<>>
            /\ q_pc = "done"

\* Witness of C7: a single match among several records, opened.
C7_Witness ==
    /\ q_mode = "substring"
    /\ Len(q_matches) = 1
    /\ Cardinality(DOMAIN q_resources) >= 2
    /\ Get(Cache[q_matches[1]], "url", <<>>) # <<>>
    /\ q_opened = <<Get(Cache[q_matches[1]], "url", <<>>)>>

FirstIsTag == Len(q_args) > 0 /\ Lower(q_args[1]) \in ServiceKeys

\* The arguments after the service tag, or all of them when there is none
TermArgs == IF FirstIsTag THEN Tail(q_args) ELSE q_args

\* The term arguments with one space between neighbours
RECURSIVE Spaced(_)
Spaced(parts) ==
    IF parts = <<>> THEN <<>>
    ELSE parts[1] \o (IF Len(parts) > 1 THEN <<" ">> \o Spaced(Tail(parts)) ELSE <<>>)

\* The service tag and the term the arguments stand for
ParsedAsClaimed ==
    /\ q_service = IF FirstIsTag THEN Lower(q_args[1]) ELSE <<>>
    /\ (q_mode = "substring" /\ Spaced(TermArgs) # <<>>) => q_term = Spaced(TermArgs)

\* C16 as stated: a first argument that lower-cased is a service tag becomes the
\* service filter and the rest, joined by single spaces, the term; otherwise all
\* arguments joined form the term; an empty term runs interactive mode, not
\* substring mode.
C16_EmptyTermInteractive ==
    q_pc # "idle" =>
        /\ ParsedAsClaimed
        /\ Spaced(TermArgs) = <<>> => q_mode = "interactive"

\* C16 amended: the parse as stated; an invocation whose service filter is
\* disabled ends before either mode; otherwise a non-empty term runs substring
\* mode on it, and an empty term runs interactive mode when the fzf binary is
\* there, and without the binary prompts for a term and runs substring mode on
\* a non-empty typed term.
C16_EmptyTermBranches ==
    q_pc # "idle" =>
        /\ ParsedAsClaimed
        /\ IF q_service # <<>> /\ q_service \notin load_settings(settings_file)
           THEN q_mode = "none" /\ q_outcome = "Disabled"
           ELSE IF Spaced(TermArgs) # <<>>
           THEN q_mode = "substring" /\ q_term = Spaced(TermArgs)
           ELSE IF fzf_installed
           THEN q_mode = "interactive" /\ q_term = <<>>
           ELSE \/ q_mode = "interactive" /\ q_term = <<>>
                \/ /\ q_mode = "substring"
                   /\ q_term \in ManualPool \ {<<>>}
                   /\ DOMAIN Cache # {}

\* Witness of C16: an upper-case service tag alone, of an enabled service, and
\* the matcher is running in interactive mode on that service's records.
C16_Witness ==
    /\ q_args = << <<"S", "3">> >>
    /\ q_service = SvcS3
    /\ q_mode = "interactive"
    /\ q_pc = "fzf"

\* The invocation read the cache file and it was missing or not valid JSON
CacheUnreadable ==
    /\ "Loaded" \in Range(q_phases)
    /\ resources_file.kind \in {"missing", "corrupt"}

\* C17: when the cache file is missing or is not valid JSON, the query reports
\* the condition and gives the hint to run the Collector, no record is matched,
\* nothing is opened, and the invocation ends without an unhandled error.
C17_UnreadableCacheHinted ==
    CacheUnreadable =>
        /\ q_printed \cap {"NotFound", "NotValidJson"} # {}
        /\ "HintPopulate" \in q_printed
        /\ q_resources = EmptyDict
        /\ q_matches = <<>>
        /\ q_suggestions = <<>>
        /\ q_fzf_calls = <<>>
        /\ q_opened = <<>>
        /\ q_pc = "done"
        /\ q_outcome \in {"Empty", "NoResources"}

\* The visible set of the invocation: the records of enabled services, of the
\* filtered service when one is given
VisibleSet ==
    {name \in DOMAIN Cache :
        /\ Visible(name)
        /\ q_service # <<>> => ServiceOf(Cache[name]) = q_service}

\* The invocation searched: its service filter, if any, is enabled, the cache
\* has records, and there is a term or a matcher to give them to.
Searched ==
    /\ q_pc # "idle"
    /\ q_outcome \notin {"Disabled", "Empty", "NoResources", "NoQuery"}

\* C18: every invocation loads the cache, then filters it to the visible set,
\* and then ends in exactly one of DirectOpen, InteractiveSelect, Suggest,
\* NoMatch, without going back to an earlier state; stated of the invocations
\* that search.
C18_LoadFilterOutcome ==
    Searched =>
        /\ q_phases = <<"Loaded", "Filtered">>
        /\ DOMAIN q_resources = VisibleSet
        /\ q_outcome \in {"DirectOpen", "InteractiveSelect", "Suggest", "NoMatch"}
        /\ q_pc = "fzf" => q_outcome = "InteractiveSelect"

\* C20: for a record that lacks the service, type or url key the lines take the
\* placeholders, and no path of the invocation raises on the missing key.
C20_MissingKeysDegrade ==
    /\ q_outcome # "KeyError"
    /\ \A call \in Range(q_fzf_calls) :
          \A i \in 1..Len(call) :
             LET resource == Cache[call[i][1]]
             IN  /\ "service" \notin DOMAIN resource =>
                       call[i][2].name = <<"u","n","k","n","o","w","n">>
                 /\ "type" \notin DOMAIN resource => ~call[i][2].cluster
                 /\ "url" \notin DOMAIN resource => call[i][4] = <<>>

-----------------------------------------------------------------------------
(* Properties of get_environment_indicator *)

HasMarker(m) == Contains(Lower(e_name), m)

IsProd == HasMarker(<<"p","r","o","d">>)
IsStage == HasMarker(<<"s","t","a","g">>)
IsDev == HasMarker(<<"d","e","v">>)
IsTest == HasMarker(<<"t","e","s","t">>)

\* C6: the tag is that of the first category, in the order PROD, STAGE, DEV,
\* TEST, one of whose markers occurs in the lower-cased name, OTHER when none
\* occurs; a name with both "prod" and "test" is PROD.
C6_EnvironmentPrecedence ==
    e_tag # "none" =>
        /\ e_tag = "PROD" <=> IsProd
        /\ e_tag = "STAGE" <=> (~IsProd /\ IsStage)
        /\ e_tag = "DEV" <=> (~IsProd /\ ~IsStage /\ IsDev)
        /\ e_tag = "TEST" <=> (~IsProd /\ ~IsStage /\ ~IsDev /\ IsTest)
        /\ e_tag = "OTHER" <=> (~IsProd /\ ~IsStage /\ ~IsDev /\ ~IsTest)

\* Witness of C6: a name holding "prod" in upper case and "test", tagged PROD.
C6_Witness ==
    /\ e_tag = "PROD"
    /\ e_name = <<"t","e","s","t","P","R","O","D">>

-----------------------------------------------------------------------------
(* The Collector: populate_resources.py *)

\* At most MaxItems items are listed during a sequence of runs, and at most
\* MaxFailures API calls raise ClientError.
MaxItems == 2
MaxFailures == 2

CollectorNames == {NameAb, NameBc}

\* An answer of the cloud API to one listing: the call raised ClientError, or it
\* listed `items`; `denied` are the listed items whose describe call raises.
Answer(service, part, raised, items, denied) ==
    [service |-> service, part |-> part, raised |-> raised,
     items |-> items, denied |-> denied]

RECURSIVE ItemsIn(_)
ItemsIn(env) ==
    IF env = <<>> THEN 0
    ELSE Cardinality(env[1].items) + ItemsIn(Tail(env))

RECURSIVE FailuresIn(_)
FailuresIn(env) ==
    IF env = <<>> THEN 0
    ELSE (IF env[1].raised THEN 1 ELSE 0) + Cardinality(env[1].denied)
         + FailuresIn(Tail(env))

\* The answers the API can still give to a listing of `service`; describable
\* says whether the fetcher describes each listed item.
Answers(service, part, describable, env) ==
    LET itemsLeft == MaxItems - c_spent.items - ItemsIn(env)
        failuresLeft == MaxFailures - c_spent.failures - FailuresIn(env)
        raises == IF failuresLeft > 0
                  THEN {Answer(service, part, TRUE, {}, {})} ELSE {}
        lists ==
            UNION {{Answer(service, part, FALSE, items, denied) :
                       denied \in {D \in SUBSET items :
                                     /\ Cardinality(D) <= failuresLeft
                                     /\ (describable \/ D = {})}} :
                   items \in {S \in SUBSET CollectorNames :
                                Cardinality(S) <= itemsLeft}}
    IN  raises \cup lists

\* One stored item: resources[name] = {...}
Entry(service, type, name) ==
    [name |-> name, record |-> Record(service, type, name)]

\* The dict a fetcher returns after storing `entries` in order
AsDict(entries) ==
    [name \in {entries[i].name : i \in 1..Len(entries)} |->
        entries[CHOOSE i \in 1..Len(entries) :
                   /\ entries[i].name = name
                   /\ \A j \in (i + 1)..Len(entries) : entries[j].name # name].record]

\* Mutant: the fetched dict replaces all_resources instead of updating it.
Update_replace(d, e) == e

\* Mutant: a name already in the mapping keeps its record (setdefault).
Update_keepFirst(d, e) ==
    [name \in DOMAIN d \cup DOMAIN e |->
        IF name \in DOMAIN d THEN d[name] ELSE e[name]]

\* dict.update
Update(d, e) ==
    [name \in DOMAIN d \cup DOMAIN e |->
        IF name \in DOMAIN e THEN e[name] ELSE d[name]]

\* The loop of a fetcher over the listed items, in listing order
StoreAll(service, type, names) ==
    LET order == SortedSeq(names)
    IN  [i \in 1..Len(order) |-> Entry(service, type, order[i])]

\* fetch_lambda_functions, fetch_s3_buckets, fetch_sqs_queues and
\* fetch_api_gateway_apis: the entries stored, none when the listing raised.
FetchListed(service, type, answer) ==
    IF answer.raised THEN <<>>
    ELSE StoreAll(service, type, answer.items)

fetch_lambda_functions(answer) == FetchListed(SvcLambda, "function", answer)
fetch_s3_buckets(answer) == FetchListed(SvcS3, "bucket", answer)
fetch_sqs_queues(answer) == FetchListed(SvcSqs, "queue", answer)
fetch_api_gateway_apis(answer) == FetchListed(SvcApigateway, "rest_api", answer)

\* Mutant: a describe call that raises ends the fetch with no records.
FetchDescribed_abortOnDenied(service, type, answer) ==
    IF answer.raised \/ answer.denied # {} THEN <<>>
    ELSE StoreAll(service, type, answer.items)

\* fetch_kinesis_streams and fetch_dynamodb_tables: each listed item is
\* described; an item whose describe call raises is skipped (continue).
FetchDescribed(service, type, answer) ==
    IF answer.raised THEN <<>>
    ELSE StoreAll(service, type, answer.items \ answer.denied)

fetch_kinesis_streams(answer) == FetchDescribed(SvcKinesis, "stream", answer)
fetch_dynamodb_tables(answer) == FetchDescribed(SvcDynamodb, "table", answer)

\* fetch_rds_resources: the instances, then the clusters, each listing in its
\* own try; the fetch returns what the listings that did not raise stored.
fetch_rds_resources(instances, clusters) ==
    FetchListed(SvcRds, "instance", instances)
    \o FetchListed(SvcRds, "cluster", clusters)

\* all_resources.update(fetch_...(session, region)) and the next step
Merge(entries, answers, next) ==
    /\ all_resources' = Update(all_resources, AsDict(entries))
    /\ c_enumerated' = c_enumerated \o entries
    /\ c_env' = c_env \o answers
    /\ c_pc' = next
    /\ UNCHANGED <<c_exit, c_creds, c_write, c_prior, c_spent, fvars, qvars,
                   evars, svars>>

\* The ways credential resolution fails: get_session returns None (the session
\* could not be created), or get_caller_identity raises ClientError or
\* NoCredentialsError.
CredentialFailures == {"no_session", "denied"}

\* Mutant: a credential failure is reported and the run goes on.
CheckCredentials_goOn ==
    /\ c_pc = "creds"
    /\ c_creds' \in {"ok"} \cup CredentialFailures
    /\ c_pc' = "lambda"
    /\ UNCHANGED <<all_resources, c_enumerated, c_env, c_exit, c_write, c_prior, c_spent,
                   fvars, qvars, evars, svars>>

\* get_session and sts.get_caller_identity: main returns 1 when either fails.
CheckCredentials ==
    /\ c_pc = "creds"
    /\ \/ /\ c_creds' = "ok"
          /\ c_pc' = "lambda"
          /\ c_exit' = c_exit
       \/ /\ c_creds' \in CredentialFailures
          /\ c_pc' = "done"
          /\ c_exit' = "1"
    /\ UNCHANGED <<all_resources, c_enumerated, c_env, c_write, c_prior, c_spent,
                   fvars, qvars, evars, svars>>

FetchLambda ==
    /\ c_pc = "lambda"
    /\ \E a \in Answers(SvcLambda, "all", FALSE, c_env) :
          Merge(fetch_lambda_functions(a), <<a>>, "s3")

FetchS3 ==
    /\ c_pc = "s3"
    /\ \E a \in Answers(SvcS3, "all", FALSE, c_env) :
          Merge(fetch_s3_buckets(a), <<a>>, "sqs")

FetchSqs ==
    /\ c_pc = "sqs"
    /\ \E a \in Answers(SvcSqs, "all", FALSE, c_env) :
          Merge(fetch_sqs_queues(a), <<a>>, "kinesis")

FetchKinesis ==
    /\ c_pc = "kinesis"
    /\ \E a \in Answers(SvcKinesis, "all", TRUE, c_env) :
          Merge(fetch_kinesis_streams(a), <<a>>, "dynamodb")

FetchDynamodb ==
    /\ c_pc = "dynamodb"
    /\ \E a \in Answers(SvcDynamodb, "all", TRUE, c_env) :
          Merge(fetch_dynamodb_tables(a), <<a>>, "rds")

\* The outer try of fetch_rds_resources returns {} when creating the client
\* raises; otherwise the two listings are made.
FetchRds ==
    /\ c_pc = "rds"
    /\ \/ \E a \in {x \in Answers(SvcRds, "all", FALSE, c_env) : x.raised} :
              Merge(<<>>, <<a>>, "apigateway")
       \/ \E i \in Answers(SvcRds, "instance", FALSE, c_env) :
              \E c \in Answers(SvcRds, "cluster", FALSE, c_env \o <<i>>) :
                  Merge(fetch_rds_resources(i, c), <<i, c>>, "apigateway")

FetchApiGateway ==
    /\ c_pc = "apigateway"
    /\ \E a \in Answers(SvcApigateway, "all", FALSE, c_env) :
          Merge(fetch_api_gateway_apis(a), <<a>>, "save")

\* open(output_file, 'w') and json.dump: the file holds the whole mapping, or
\* the write raised OSError before or after the file was truncated.
\* Mutant: a failed write is reported and the run still returns 0.
Save_returnZero ==
    /\ c_pc = "save"
    /\ \/ /\ resources_file' = [kind |-> "json", data |-> all_resources]
          /\ c_write' = "ok"
       \/ /\ resources_file' \in
                {resources_file, [kind |-> "corrupt", data |-> EmptyDict]}
          /\ c_write' = "oserror"
    /\ c_exit' = "0"
    /\ c_pc' = "done"
    /\ UNCHANGED <<settings_file, all_resources, c_enumerated, c_env, c_creds,
                   c_prior, c_spent, qvars, evars, svars>>

Save ==
    /\ c_pc = "save"
    /\ \/ /\ resources_file' = [kind |-> "json", data |-> all_resources]
          /\ c_write' = "ok"
          /\ c_exit' = "0"
       \/ /\ resources_file' \in
                {resources_file, [kind |-> "corrupt", data |-> EmptyDict]}
          /\ c_write' = "oserror"
          /\ c_exit' = "1"
    /\ c_pc' = "done"
    /\ UNCHANGED <<settings_file, all_resources, c_enumerated, c_env, c_creds,
                   c_prior, c_spent, qvars, evars, svars>>

\* Mutant: the next run starts from the mapping of the cache file on disk.
Rerun_merge ==
    /\ c_pc = "done"
    /\ c_pc' = "creds"
    /\ all_resources' = load_aws_resources(resources_file)
    /\ c_enumerated' = <<>>
    /\ c_env' = <<>>
    /\ c_exit' = "none"
    /\ c_creds' = "none"
    /\ c_write' = "none"
    /\ c_prior' = resources_file
    /\ c_spent' = [items |-> c_spent.items + ItemsIn(c_env),
                   failures |-> c_spent.failures + FailuresIn(c_env)]
    /\ UNCHANGED <<fvars, qvars, evars, svars>>

\* The process has exited and populate_resources.py is run again: main starts
\* with all_resources = {} and finds the cache file the earlier runs left.
Rerun ==
    /\ c_pc = "done"
    /\ c_pc' = "creds"
    /\ all_resources' = EmptyDict
    /\ c_enumerated' = <<>>
    /\ c_env' = <<>>
    /\ c_exit' = "none"
    /\ c_creds' = "none"
    /\ c_write' = "none"
    /\ c_prior' = resources_file
    /\ c_spent' = [items |-> c_spent.items + ItemsIn(c_env),
                   failures |-> c_spent.failures + FailuresIn(c_env)]
    /\ UNCHANGED <<fvars, qvars, evars, svars>>

\* The cache file a run finds: none, or the one an earlier run wrote.
PriorCaches ==
    {[kind |-> "missing", data |-> EmptyDict],
     [kind |-> "json",
      data |-> [name \in {NameAbd} |-> Record(SvcS3, "bucket", name)]]}

CollectInit ==
    /\ c_pc = "creds"
    /\ all_resources = EmptyDict
    /\ c_enumerated = <<>>
    /\ c_env = <<>>
    /\ c_exit = "none"
    /\ c_creds = "none"
    /\ c_write = "none"
    /\ resources_file \in PriorCaches
    /\ c_prior = resources_file
    /\ c_spent = [items |-> 0, failures |-> 0]
    /\ settings_file = [kind |-> "missing", enabled |-> {}]
    /\ fzf_installed = FALSE
    /\ QueryIdle
    /\ EnvIdle
    /\ SettingsIdle

CollectNext ==
    \/ CheckCredentials
    \/ FetchLambda
    \/ FetchS3
    \/ FetchSqs
    \/ FetchKinesis
    \/ FetchDynamodb
    \/ FetchRds
    \/ FetchApiGateway
    \/ Save

SpecCollect == CollectInit /\ [][CollectNext]_vars

\* Any sequence of Collector runs
RunsNext == CollectNext \/ Rerun

SpecRuns == CollectInit /\ [][RunsNext]_vars

-----------------------------------------------------------------------------
(* Properties of the Collector *)

\* The listed items of an answer that the fetcher could describe
Described(a) == a.items \ a.denied

\* The record in `cache` under `name` is the one stored for answer a
StoredFor(cache, name, a) ==
    /\ name \in DOMAIN cache
    /\ cache[name].service = a.service
    /\ a.part # "all" => cache[name].type = a.part

\* Every service was enumerated, in the order of main
AllEnumerated ==
    /\ {c_env[i].service : i \in 1..Len(c_env)} = ServiceKeys
    /\ \A i, j \in 1..Len(c_env) :
          i < j =>
             \E k, l \in 1..Len(SERVICE_CONFIG) :
                /\ k <= l
                /\ SERVICE_CONFIG[k] = c_env[i].service
                /\ SERVICE_CONFIG[l] = c_env[j].service

C10_ItemFailureIsolated ==
    \A i \in 1..Len(c_env) :
        (c_env[i].service \in {SvcKinesis, SvcDynamodb} /\ ~c_env[i].raised) =>
            {c_enumerated[k].name :
                k \in {n \in 1..Len(c_enumerated) :
                          c_enumerated[n].record.service = c_env[i].service}}
              = Described(c_env[i])

\* Witness of C10: a stream's describe call failed and a sibling was recorded.
C10_Witness ==
    \E i \in 1..Len(c_env) :
        /\ c_env[i].service = SvcKinesis
        /\ c_env[i].denied # {}
        /\ \E k \in 1..Len(c_enumerated) :
              /\ c_enumerated[k].record.service = SvcKinesis
              /\ c_enumerated[k].name \in Described(c_env[i])

\* C11: if the session cannot be created or the caller-identity check fails, the
\* run ends with exit 1 before any service is enumerated, and the cache file is
\* neither created nor modified.
C11_CredentialFailureAborts ==
    c_creds \in CredentialFailures =>
        /\ c_pc = "done"
        /\ c_exit = "1"
        /\ c_env = <<>>
        /\ c_enumerated = <<>>
        /\ all_resources = EmptyDict
        /\ c_write = "none"
        /\ resources_file = c_prior

\* Witness of C11: the caller-identity check failed where an earlier run had
\* left a cache file, and the run is over.
C11_Witness ==
    /\ c_creds = "denied"
    /\ c_pc = "done"
    /\ c_prior.kind = "json"
    /\ DOMAIN c_prior.data # {}

\* C12: a run exits 1 if and only if credential resolution fails or the cache
\* write fails, and exits 0 in every other case, whatever the number of listing
\* or describe calls that failed.
C12_ExitCode ==
    /\ c_pc # "done" => c_exit = "none"
    /\ c_pc = "done" =>
          /\ c_exit \in {"0", "1"}
          /\ c_exit = "1" <=> (c_creds \in CredentialFailures \/ c_write = "oserror")
          /\ c_exit = "0" <=> (c_creds = "ok" /\ c_write = "ok")

\* Witness of C12: a run in which a listing call and a describe call failed
\* has exited 0.
C12_Witness ==
    /\ c_exit = "0"
    /\ \E i \in 1..Len(c_env) : c_env[i].raised
    /\ \E i \in 1..Len(c_env) : c_env[i].denied # {}

\* C13: a failed write of the cache file leaves the file's prior content
\* intact: at every point the file holds the complete old content or the
\* complete new content.
C13_WriteAllOrNothing ==
    /\ resources_file \in {c_prior, [kind |-> "json", data |-> all_resources]}
    /\ c_write = "oserror" => resources_file = c_prior

\* The (name, record) pairs the fetchers of this run stored
EnumeratedPairs ==
    {<<c_enumerated[i].name, c_enumerated[i].record>> : i \in 1..Len(c_enumerated)}

\* The (name, record) pairs of a cache mapping
PairsOf(cache) == {<<name, cache[name]>> : name \in DOMAIN cache}

\* C14 as stated: after every successful run, in any sequence of runs, the cache
\* file contains exactly the records enumerated in that run, and no record of
\* the previous cache file survives unless it was enumerated again.
C14_CacheIsEnumerated ==
    c_write = "ok" =>
        /\ resources_file.kind = "json"
        /\ PairsOf(resources_file.data) = EnumeratedPairs

\* C14 amended: after every successful run, in any sequence of runs, the cache
\* file contains exactly one record for each name enumerated in that run, the
\* one stored last under that name, and nothing else: no record of the previous
\* cache file survives unless it was enumerated again.
C14_CacheIsLastEnumerated ==
    c_write = "ok" =>
        /\ resources_file.kind = "json"
        /\ PairsOf(resources_file.data) \subseteq EnumeratedPairs
        /\ DOMAIN resources_file.data =
              {c_enumerated[i].name : i \in 1..Len(c_enumerated)}
        /\ \A i \in 1..Len(c_enumerated) :
              (\A j \in (i + 1)..Len(c_enumerated) :
                    c_enumerated[j].name # c_enumerated[i].name)
                 => resources_file.data[c_enumerated[i].name] = c_enumerated[i].record

\* Witness of C14: a run that found the cache of an earlier run, with a record
\* it did not enumerate itself, has written a cache with other records and
\* without that one.
C14_Witness ==
    /\ c_write = "ok"
    /\ c_prior.kind = "json"
    /\ \E name \in DOMAIN c_prior.data \cap CollectorNames :
          name \notin DOMAIN resources_file.data
    /\ DOMAIN resources_file.data # {}

\* The position of an entry in the order in which main merges: the services in
\* the order of the update calls, the rds instances before the rds clusters.
MergeRank(entry) ==
    LET k == CHOOSE n \in 1..Len(SERVICE_CONFIG) :
                 SERVICE_CONFIG[n] = entry.record.service
    IN  2 * k + (IF entry.record.type = "cluster" THEN 1 ELSE 0)

\* C19: when enumerated items have the same name, the cache holds under that
\* name the record merged last in the order lambda, s3, sqs, kinesis, dynamodb,
\* rds instances, rds clusters, apigateway, and the run does not fail.
C19_LastMergedWins ==
    /\ \A i, j \in 1..Len(c_enumerated) :
          i < j => MergeRank(c_enumerated[i]) <= MergeRank(c_enumerated[j])
    /\ \A i \in 1..Len(c_enumerated) :
          LET name == c_enumerated[i].name
              same == {j \in 1..Len(c_enumerated) : c_enumerated[j].name = name}
          IN  (\A j \in same : MergeRank(c_enumerated[j]) <= MergeRank(c_enumerated[i]))
                 => /\ c_pc \in {"save", "done"} => all_resources[name] = c_enumerated[i].record
                    /\ c_write = "ok" =>
                          resources_file.data[name] = c_enumerated[i].record
    /\ (c_pc = "done" /\ c_creds = "ok" /\ c_write = "ok") => c_exit = "0"

\* Witness of C19: an rds instance and an rds cluster have the name of a record
\* of an earlier service, and the written cache holds the cluster's record.
C19_Witness ==
    /\ c_exit = "0"
    /\ \E i, j \in 1..Len(c_enumerated) :
          /\ i < j
          /\ c_enumerated[i].name = c_enumerated[j].name
          /\ c_enumerated[i].record.service # c_enumerated[j].record.service
          /\ resources_file.data[c_enumerated[j].name] = c_enumerated[j].record
          /\ c_enumerated[j].record.service = SvcRds

-----------------------------------------------------------------------------
(* Properties of the settings menu *)

\* A read of the settings by this or by another invocation
ReadNow == load_settings(settings_file)

\* C15 as stated: every mutation of the enabled-services set is persisted right
\* after the mutation, so that any later read of the settings sees the toggled
\* state.
C15_PersistedAtOnce ==
    s_pc \in {"settings", "toggle"} => ReadNow = s_enabled

\* C15 amended: the toggles change the set in memory only, and a read sees the
\* state from before the toggles until Save & back; Save & back writes the set
\* (all seven services when it is empty), after a write that succeeded every
\* later read sees the saved set, and after a write that failed a read sees the
\* state from before or all services enabled.
C15_PersistedOnSave ==
    /\ s_pc = "toggle" => ReadNow = s_settings
    /\ s_pc = "settings" => (s_enabled = ReadNow /\ s_settings = ReadNow)
    /\ (s_pc = "done" /\ s_write = "none") => ReadNow = s_settings
    /\ s_write = "ok" =>
          /\ s_saving # {}
          /\ settings_file = [kind |-> "json", enabled |-> s_saving]
          /\ ReadNow = s_saving
    /\ s_write = "oserror" => ReadNow \in {s_before, ServiceKeys}

\* Witness of C15: two services were toggled off and saved, and a read gives
\* the saved set, which is not what a read gave before.
C15_Witness ==
    /\ s_write = "ok"
    /\ s_pc = "settings"
    /\ s_before = ServiceKeys
    /\ ReadNow = ServiceKeys \ {SvcLambda, SvcRds}

\* C21: whatever toggles came before Save & back, the enabled_services list
\* given to save_settings and written to the settings file is never empty: when
\* no service is enabled at Save & back, all seven are enabled before writing.
C21_SavedNeverEmpty ==
    s_write # "none" =>
        /\ s_saving # {}
        /\ s_saving = IF s_toggled = {} THEN ServiceKeys ELSE s_toggled
        /\ s_write = "ok" =>
              /\ settings_file.kind = "json"
              /\ settings_file.enabled # {}
              /\ s_toggled = {} => settings_file.enabled = ServiceKeys

\* Witness of C21: the only enabled service was toggled off, Save & back was
\* chosen with the set empty, and the file written lists all seven services.
C21_Witness ==
    /\ s_write = "ok"
    /\ s_pc = "settings"
    /\ s_before = {SvcS3}
    /\ s_toggled = {}
    /\ settings_file = [kind |-> "json", enabled |-> ServiceKeys]

=============================================================================
